---- MODULE Spec2Model ----
(***************************************************************************)
(* Task Manager API (src/app/main.py): one table "tasks" behind five       *)
(* FastAPI routes.  The table is a set of rows; a request is validated by  *)
(* its pydantic schema, handled against the table, and the handler's       *)
(* return value is validated against the route's response_model.           *)
(***************************************************************************)
EXTENDS Integers, Sequences, FiniteSets, TLC

\* ------------------------------------------------------------------ bounds
MaxTasks == 2   \* rows the table may hold at once
MaxId    == 3   \* largest primary key the storage hands out
MaxClock == 1   \* largest value of the clock read by datetime.utcnow
MaxPage  == 2   \* largest skip and largest limit of a list request
MaxConcTasks == 1   \* rows the table may hold while two updates run concurrently

\* ------------------------------------------------------------ JSON values
\* A JSON / Python value is a tagged tuple, so that values of different
\* types can be compared.
JNull    == <<"null">>
JArray   == <<"array">>
JStr(s)  == <<"str", s>>
JBool(b) == <<"bool", b>>
IsStr(v)  == v[1] = "str"
IsBool(v) == v[1] = "bool"
IsNull(v) == v[1] = "null"

Titles       == {"a", "b"}
Descriptions == {"d"}
Fields       == {"title", "description", "completed"}

VARIABLES
    table,    \* the rows of "tasks": records id, title, description, completed, created_at
    clock,    \* the time datetime.utcnow returns
    resp,     \* the last request and its response
    born,     \* history: the id and created_at each stored task was created with
    order,    \* history: the ids of the stored tasks, in creation order
    fresh,    \* history: id -> request and response of its create, until updated or deleted
    sess      \* the two concurrent update requests of ConcSpec, one session each

vars == <<table, clock, resp, born, order, fresh, sess>>

\* ------------------------------------------------------------- the table
Max(S) == CHOOSE m \in S : \A x \in S : x <= m
Min(S) == CHOOSE m \in S : \A x \in S : m <= x

TableIds(t) == {r.id : r \in t}

\* Variant: the next id is the number of rows plus one.
NextId_RowCount(t) == Cardinality(t) + 1

\* Task: the Column declarations.  id is an INTEGER PRIMARY KEY, which SQLite
\* (the default DATABASE_URL) fills with the largest rowid plus one.
NextId(t) == IF t = {} THEN 1 ELSE Max(TableIds(t)) + 1

\* Variant: completed has no column default and is stored NULL.
NewRow_NoDefault(t, data, now) ==
    [id          |-> IF t = {} THEN 1 ELSE Max(TableIds(t)) + 1,
     title       |-> data.title,
     description |-> data.description,
     completed   |-> JNull,
     created_at  |-> now]

\* Task(**task.dict()); db.add; db.commit: completed takes its column default
\* False and created_at its column default datetime.utcnow.
NewRow(t, data, now) ==
    [id          |-> NextId(t),
     title       |-> data.title,
     description |-> data.description,
     completed   |-> JBool(FALSE),
     created_at  |-> now]

\* db.query(Task).filter(Task.id == task_id).first(): a row or None.
None == [none |-> TRUE]
QueryFirst(t, id) ==
    IF \E r \in t : r.id = id THEN CHOOSE r \in t : r.id = id ELSE None

\* SELECT ... FROM tasks: a scan of the table in rowid order.
RECURSIVE Scan(_)
Scan(t) ==
    IF t = {} THEN <<>>
    ELSE LET r == CHOOSE x \in t : x.id = Min(TableIds(t))
         IN  <<r>> \o Scan(t \ {r})

\* .offset(skip).limit(limit).all()
RECURSIVE Offset(_, _)
Offset(rows, n) == IF n = 0 \/ rows = <<>> THEN rows ELSE Offset(Tail(rows), n - 1)
RECURSIVE Limit(_, _)
Limit(rows, n) == IF n = 0 \/ rows = <<>> THEN <<>> ELSE <<Head(rows)>> \o Limit(Tail(rows), n - 1)

\* -------------------------------------------------------------- schemas
Has(raw, k) == k \in DOMAIN raw

\* Variant: title is Optional[str] = None.
ValidTaskCreate_OptionalTitle(raw) ==
    /\ Has(raw, "title") => (IsStr(raw.title) \/ IsNull(raw.title))
    /\ Has(raw, "description") => (IsStr(raw.description) \/ IsNull(raw.description))

\* TaskCreate: title: str is required; description: Optional[str] = None.
ValidTaskCreate(raw) ==
    /\ Has(raw, "title") /\ IsStr(raw.title)
    /\ Has(raw, "description") => (IsStr(raw.description) \/ IsNull(raw.description))

\* task.dict() of a TaskCreate: every field of the schema, a field the request
\* left out at its default.
TaskCreateDict(raw) ==
    [title       |-> IF Has(raw, "title") THEN raw.title ELSE JNull,
     description |-> IF Has(raw, "description") THEN raw.description ELSE JNull]

\* TaskUpdate: three Optional fields; keys the schema does not name are ignored.
ValidTaskUpdate(raw) ==
    /\ Has(raw, "title") => (IsStr(raw.title) \/ IsNull(raw.title))
    /\ Has(raw, "description") => (IsStr(raw.description) \/ IsNull(raw.description))
    /\ Has(raw, "completed") => (IsBool(raw.completed) \/ IsNull(raw.completed))

\* Variant: task.dict(), every field of the schema, unset ones as None.
UpdateData_WithUnset(raw) == [f \in Fields |-> IF Has(raw, f) THEN raw[f] ELSE JNull]

\* task.dict(exclude_unset=True): the fields the request set, null included.
UpdateData(raw) == [f \in DOMAIN raw \cap Fields |-> raw[f]]

\* for field, value in update_data.items(): setattr(db_task, field, value)
SetAttrs(obj, data) ==
    [k \in DOMAIN obj |-> IF k \in DOMAIN data THEN data[k] ELSE obj[k]]

\* TaskResponse: what response_model validation accepts (from_attributes).
ResponseFields == {"id", "title", "description", "completed", "created_at"}
ValidTaskResponse(obj) ==
    /\ ResponseFields \subseteq DOMAIN obj
    /\ IsStr(obj.title)
    /\ IsStr(obj.description) \/ IsNull(obj.description)
    /\ IsBool(obj.completed)

\* ------------------------------------------------------------ responses
NotFound      == [error |-> "Task not found"]
ServerError   == [status |-> 500, body |-> [detail |-> "Internal Server Error"]]
Unprocessable == [status |-> 422, body |-> [detail |-> "validation error"]]
Ok(body)      == [status |-> 200, body |-> body]

\* response_model=TaskResponse: the handler's return value is validated and
\* serialized; a value that does not validate raises, which is a 500.
SerializeTask(obj) ==
    IF ValidTaskResponse(obj) THEN Ok([k \in ResponseFields |-> obj[k]]) ELSE ServerError

\* response_model=List[TaskResponse]
SerializeList(rows) ==
    IF \A i \in 1..Len(rows) : ValidTaskResponse(rows[i])
    THEN Ok([i \in 1..Len(rows) |-> [k \in ResponseFields |-> rows[i][k]]])
    ELSE ServerError

\* The last exchange: the route, its path parameter (0 when it has none), and
\* the status and body the client receives.
Answer(op, id, r) == [op |-> op, id |-> id, status |-> r.status, body |-> r.body]

\* --------------------------------------------------------------- requests
Ids == 1..MaxId

\* A JSON body: the keys in it and their values.
Body(t, d, c) ==
    [k \in {x \in Fields : (x = "title" /\ t # <<>>) \/ (x = "description" /\ d # <<>>)
                            \/ (x = "completed" /\ c # <<>>)} |->
        IF k = "title" THEN t ELSE IF k = "description" THEN d ELSE c]
Absent == <<>>

CreateBodies ==
    {Body(t, d, Absent) :
        t \in {Absent, JNull} \cup {JStr(s) : s \in Titles},
        d \in {Absent, JArray} \cup {JStr(s) : s \in Descriptions}}

UpdateBodies ==
    {Body(t, d, c) :
        t \in {Absent, JNull} \cup {JStr(s) : s \in Titles},
        d \in {Absent, JNull} \cup {JStr(s) : s \in Descriptions},
        c \in {Absent, JArray, JBool(TRUE), JBool(FALSE)}}

\* The two update requests that run concurrently, each in the session get_db
\* opens for it.  pc is the request's place in update_task; gone is history:
\* the row it loaded has been deleted since.
Sessions == {1, 2}
Idle == [pc |-> "idle", id |-> 0, data |-> <<>>, obj |-> None, gone |-> FALSE, status |-> 0]

\* ------------------------------------------------------------------ Init
Init ==
    /\ table = {}
    /\ clock = 0
    /\ resp = Answer("start", 0, Ok([none |-> TRUE]))
    /\ born = {}
    /\ order = <<>>
    /\ fresh = <<>>
    /\ sess = [s \in Sessions |-> Idle]

Remove(seq, x) == SelectSeq(seq, LAMBDA y : y # x)
Without(f, x) == [k \in DOMAIN f \ {x} |-> f[k]]

\* --------------------------------------------------------------- handlers
\* GET /
root ==
    /\ resp' = Answer("root", 0, Ok([message |-> "Welcome to Task Manager API",
                                      docs |-> "/docs",
                                      openapi_schema |-> "/openapi.json"]))
    /\ UNCHANGED <<table, clock, born, order, fresh, sess>>

\* GET /health
health_check ==
    /\ resp' = Answer("health", 0, Ok([status |-> "healthy"]))
    /\ UNCHANGED <<table, clock, born, order, fresh, sess>>

\* GET /tasks
get_tasks(skip, limit) ==
    /\ resp' = Answer("list", 0,
                      SerializeList(Limit(Offset(Scan(table), skip), limit)))
    /\ UNCHANGED <<table, clock, born, order, fresh, sess>>

\* GET /tasks/{task_id}
get_task(task_id) ==
    LET task == QueryFirst(table, task_id) IN
    /\ resp' = Answer("get", task_id,
                      IF task = None THEN SerializeTask(NotFound) ELSE SerializeTask(task))
    /\ UNCHANGED <<table, clock, born, order, fresh, sess>>

\* POST /tasks
create_task(raw, now) ==
    IF ~ValidTaskCreate(raw)
    THEN /\ resp' = Answer("create", 0, Unprocessable)
         /\ UNCHANGED <<table, clock, born, order, fresh, sess>>
    ELSE LET db_task == NewRow(table, TaskCreateDict(raw), now)
             answer  == SerializeTask(QueryFirst(table \cup {db_task}, db_task.id))
         IN  /\ Cardinality(table) < MaxTasks
             /\ db_task.id <= MaxId
             /\ table' = table \cup {db_task}
             /\ clock' = now
             /\ resp' = Answer("create", 0, answer)
             /\ born' = born \cup {[id |-> db_task.id, created_at |-> db_task.created_at]}
             /\ order' = Append(order, db_task.id)
             /\ fresh' = [k \in DOMAIN fresh \cup {db_task.id} |->
                            IF k = db_task.id
                            THEN [req |-> TaskCreateDict(raw), body |-> answer.body]
                            ELSE fresh[k]]
             /\ UNCHANGED sess

\* Variant: the UPDATE writes every column of the loaded object.
WriteBack_WholeRow(t, old, new) == {IF r.id = old.id THEN new ELSE r : r \in t}

\* db.commit() of an update: UPDATE tasks SET <the changed columns> WHERE id = ...
WriteBack(t, old, new) ==
    {IF r.id = old.id
     THEN [k \in DOMAIN r |-> IF new[k] # old[k] THEN new[k] ELSE r[k]]
     ELSE r : r \in t}

\* The table after update_task has found the row, set the attributes and
\* committed.
UpdatedTable(t, task_id, raw) ==
    LET db_task == QueryFirst(t, task_id)
    IN  WriteBack(t, db_task, SetAttrs(db_task, UpdateData(raw)))

\* PUT /tasks/{task_id}
update_task(task_id, raw) ==
    IF ~ValidTaskUpdate(raw)
    THEN /\ resp' = Answer("update", task_id, Unprocessable)
         /\ UNCHANGED <<table, clock, born, order, fresh, sess>>
    ELSE LET db_task == QueryFirst(table, task_id) IN
         IF db_task = None
         THEN /\ resp' = Answer("update", task_id, SerializeTask(NotFound))
              /\ UNCHANGED <<table, clock, born, order, fresh, sess>>
         ELSE LET after == UpdatedTable(table, task_id, raw)
              IN  /\ table' = after
                  /\ resp' = Answer("update", task_id,
                                    SerializeTask(QueryFirst(after, task_id)))
                  /\ fresh' = Without(fresh, task_id)
                  /\ UNCHANGED <<clock, born, order, sess>>

\* DELETE /tasks/{task_id}
delete_task(task_id) ==
    LET db_task == QueryFirst(table, task_id) IN
    IF db_task = None
    THEN /\ resp' = Answer("delete", task_id, Ok(NotFound))
         /\ UNCHANGED <<table, clock, born, order, fresh, sess>>
    ELSE /\ table' = {r \in table : r.id # db_task.id}
         /\ resp' = Answer("delete", task_id,
                           Ok([message |-> "Task deleted successfully", id |-> task_id]))
         /\ born' = {b \in born : b.id # task_id}
         /\ order' = Remove(order, task_id)
         /\ fresh' = Without(fresh, task_id)
         /\ sess' = [s \in Sessions |->
                       IF sess[s].id = task_id THEN [sess[s] EXCEPT !.gone = TRUE] ELSE sess[s]]
         /\ UNCHANGED clock

GetTasks   == \E skip \in 0..MaxPage, limit \in 0..MaxPage : get_tasks(skip, limit)
GetTask    == \E id \in Ids : get_task(id)
CreateTask == \E raw \in CreateBodies, now \in clock..MaxClock : create_task(raw, now)
UpdateTask == \E id \in Ids, raw \in UpdateBodies : update_task(id, raw)
DeleteTask == \E id \in Ids : delete_task(id)

Next == root \/ health_check \/ GetTasks \/ GetTask \/ CreateTask \/ UpdateTask \/ DeleteTask

Spec == Init /\ [][Next]_vars

\* ---------------------------------------------- update_task, step by step
\* Handlers are plain def functions, which FastAPI runs on worker threads: two
\* requests interleave at their database calls.

\* task: TaskUpdate is validated, then db.query(Task)...first() loads the row.
update_read(s, task_id, raw) ==
    /\ sess[s].pc = "idle"
    /\ sess' = [sess EXCEPT ![s] =
          IF ~ValidTaskUpdate(raw)
          THEN [Idle EXCEPT !.pc = "done", !.status = Unprocessable.status]
          ELSE LET db_task == QueryFirst(table, task_id) IN
               IF db_task = None
               THEN [Idle EXCEPT !.pc = "done", !.id = task_id,
                                 !.status = SerializeTask(NotFound).status]
               ELSE [Idle EXCEPT !.pc = "loaded", !.id = task_id,
                                 !.data = UpdateData(raw), !.obj = db_task]]
    /\ UNCHANGED <<table, clock, resp, born, order, fresh>>

\* setattr(...) for each field, then db.commit(): the flush sends an UPDATE
\* when an attribute changed, and raises when that UPDATE matches no row.
update_commit(s) ==
    LET me      == sess[s]
        changed == SetAttrs(me.obj, me.data)
    IN  /\ me.pc = "loaded"
        /\ IF changed = me.obj
           THEN /\ sess' = [sess EXCEPT ![s].pc = "committed"]
                /\ UNCHANGED <<table, fresh>>
           ELSE IF me.id \notin TableIds(table)
           THEN /\ sess' = [sess EXCEPT ![s].pc = "done", ![s].status = ServerError.status]
                /\ UNCHANGED <<table, fresh>>
           ELSE /\ table' = WriteBack(table, me.obj, changed)
                /\ fresh' = Without(fresh, me.id)
                /\ sess' = [sess EXCEPT ![s].pc = "committed"]
        /\ UNCHANGED <<clock, resp, born, order>>

\* db.refresh(db_task); return db_task
update_return(s) ==
    LET me     == sess[s]
        row    == QueryFirst(table, me.id)
        answer == IF row = None THEN ServerError ELSE SerializeTask(row)
    IN  /\ me.pc = "committed"
        /\ sess' = [sess EXCEPT ![s].pc = "done", ![s].status = answer.status]
        /\ UNCHANGED <<table, clock, resp, born, order, fresh>>

\* The bodies of the two concurrent updates: one field each, or title and
\* completed together.
ConcBodies ==
    {Body(JStr("a"), Absent, Absent), Body(JStr("b"), Absent, Absent),
     Body(Absent, JStr("d"), Absent), Body(Absent, Absent, JBool(TRUE)),
     Body(JStr("b"), Absent, JBool(TRUE)), Body(Absent, Absent, JArray)}
\* The creates that run beside them.
ConcCreate ==
    /\ Cardinality(table) < MaxConcTasks
    /\ \E raw \in {Body(JStr("a"), Absent, Absent), Body(Absent, Absent, Absent)} :
          create_task(raw, clock)

UpdateRead   == \E s \in Sessions, id \in Ids, raw \in ConcBodies : update_read(s, id, raw)
UpdateCommit == \E s \in Sessions : update_commit(s)
UpdateReturn == \E s \in Sessions : update_return(s)

ConcNext == ConcCreate \/ DeleteTask \/ UpdateRead \/ UpdateCommit \/ UpdateReturn

ConcSpec == Init /\ [][ConcNext]_vars

\* ===================================================================
\* Properties
\* ===================================================================
IdsUnique == \A r1, r2 \in table : r1.id = r2.id => r1 = r2
RowOf(t, id) == CHOOSE r \in t : r.id = id
Serialized(row) == [k \in ResponseFields |-> row[k]]

\* C1: a get of an id that is not stored answers 200 with the body
\* {error: "Task not found"}, never a server error, and leaves the table as
\* it was.
C1_GetMissingAnswersNotFound ==
    [][(resp'.op = "get" /\ resp'.id \notin TableIds(table))
          => (resp'.status = 200 /\ resp'.body = NotFound /\ table' = table)]_vars

\* C2: whatever creates, updates and deletes have run, every stored task has
\* a title that is a string, never null.
C2_TitleAlwaysPresent == \A r \in table : IsStr(r.title)

\* What C3 says of an update of the stored task id by the body raw: the task's
\* supplied fields hold the supplied values, its other fields and every other
\* task are as before.
UpdatedExactly(before, after, id, raw) ==
    /\ id \in TableIds(after)
    /\ \A f \in Fields :
          RowOf(after, id)[f] = IF Has(raw, f) THEN raw[f] ELSE RowOf(before, id)[f]
    /\ {r \in after : r.id # id} = {r \in before : r.id # id}
    /\ Cardinality(after) = Cardinality(before)

\* C3: an update of a stored task sets exactly the fields its body supplies,
\* each to the supplied value, and leaves the fields it does not supply as
\* they were.
C3_UpdateSetsExactlySuppliedFields ==
    \A id \in TableIds(table), raw \in UpdateBodies :
        ValidTaskUpdate(raw) => UpdatedExactly(table, UpdatedTable(table, id, raw), id, raw)

\* An update that supplied only completed = true to a task that had a title
\* and a description has answered.
C3_Witness ==
    /\ resp.op = "update" /\ resp.status = 200
    /\ resp.body.completed = JBool(TRUE)
    /\ resp.body.title = JStr("a") /\ resp.body.description = JStr("d")
    /\ Cardinality(table) = 2

\* C4: no two stored tasks share an id, and every stored task has the id and
\* the created_at it was created with.
C4_IdAndCreatedAtStable ==
    /\ IdsUnique
    /\ {[id |-> r.id, created_at |-> r.created_at] : r \in table} = born
    /\ Cardinality(table) = Cardinality(born)

\* Two tasks are stored after the first was deleted, and the last
\* request was an update that changed a task after the clock had moved on.
C4_Witness ==
    /\ TableIds(table) = {2, 3}
    /\ resp.op = "update" /\ resp.status = 200 /\ resp.body.title = JStr("b")
    /\ clock > resp.body.created_at

\* C5: a get of a task that has not been updated or deleted since its create
\* answers 200 with the body the create answered, whose title and description
\* are the request's (description null when left out) and whose completed is
\* false.
C5_CreateGetRoundTrip ==
    (resp.op = "get" /\ resp.id \in DOMAIN fresh) =>
        /\ resp.status = 200
        /\ resp.body = fresh[resp.id].body
        /\ resp.body.id = resp.id
        /\ resp.body.title = fresh[resp.id].req.title
        /\ resp.body.description = fresh[resp.id].req.description
        /\ resp.body.completed = JBool(FALSE)

\* A get has answered for a task created without a description and untouched
\* since, while another task is stored too.
C5_Witness ==
    /\ resp.op = "get" /\ resp.id \in DOMAIN fresh
    /\ fresh[resp.id].req.description = JNull
    /\ Cardinality(table) = 2

\* The stored tasks in creation order.
InCreationOrder == [i \in 1..Len(order) |-> Serialized(RowOf(table, order[i]))]
Window(seq, skip, limit) ==
    [i \in 1..(IF Len(seq) - skip < limit
               THEN (IF Len(seq) < skip THEN 0 ELSE Len(seq) - skip)
               ELSE limit) |-> seq[skip + i]]

\* C6: for every skip and limit and every content of the table, the list
\* answers 200 with the stored tasks at positions skip .. skip+limit-1 of the
\* creation order.
C6_ListIsWindowOfCreationOrder ==
    [][resp'.op = "list" =>
          \A skip \in 0..MaxPage, limit \in 0..MaxPage :
              get_tasks(skip, limit) =>
                  (resp'.status = 200 /\ resp'.body = Window(InCreationOrder, skip, limit))]_vars

\* C7: once a delete of a stored task has answered success, a get of that id
\* answers the not-found body and no list holds the task.
C7_DeletedTaskIsGone ==
    [][(resp.op = "delete" /\ resp.status = 200 /\ resp.body # NotFound) =>
          /\ resp.id \notin TableIds(table)
          /\ get_task(resp.id) => (resp'.status = 200 /\ resp'.body = NotFound)
          /\ (resp'.op = "list" /\ resp'.status = 200) =>
                \A i \in DOMAIN resp'.body : resp'.body[i].id # resp.id]_vars

\* C8: an update of an id that is not stored answers 200 with the body
\* {error: "Task not found"}, changes no stored task and creates none.
C8_UpdateMissingAnswersNotFound ==
    [][resp'.op = "update" =>
          \A raw \in UpdateBodies :
              (/\ ValidTaskUpdate(raw)
               /\ resp'.id \notin TableIds(table)
               /\ update_task(resp'.id, raw))
              => (resp'.status = 200 /\ resp'.body = NotFound /\ table' = table)]_vars

\* C9: a create whose body has no title, or a malformed one, is answered with
\* a client error and leaves the table, and the next id, as they were.
C9_InvalidCreateTouchesNothing ==
    [][resp'.op = "create" =>
          \A raw \in CreateBodies, now \in 0..MaxClock :
              (/\ \/ ~Has(raw, "title")
                  \/ ~IsStr(raw.title)
                  \/ (Has(raw, "description") /\ raw.description = JArray)
               /\ create_task(raw, now))
              => /\ resp'.status = 422
                 /\ table' = table
                 /\ NextId(table') = NextId(table)]_vars

\* A create has been rejected while a task is stored.
C9_Witness == resp.op = "create" /\ resp.status = 422 /\ table # {}

\* The update of session s has committed its changes.
Committed(s) == sess[s].pc = "committed" \/ (sess[s].pc = "done" /\ sess[s].status = 200)

\* C10: when the two concurrent updates of one stored task supply disjoint
\* fields and both have committed, the task holds what each supplied.
C10_NoLostUpdate ==
    \A s, t \in Sessions :
        (/\ s # t
         /\ Committed(s) /\ Committed(t)
         /\ sess[s].id = sess[t].id
         /\ ~sess[s].gone /\ ~sess[t].gone
         /\ DOMAIN sess[s].data \cap DOMAIN sess[t].data = {})
        => /\ sess[s].id \in TableIds(table)
           /\ \A f \in DOMAIN sess[s].data : RowOf(table, sess[s].id)[f] = sess[s].data[f]
           /\ \A f \in DOMAIN sess[t].data : RowOf(table, sess[t].id)[f] = sess[t].data[f]

\* Both updates loaded the task before either committed, one supplied a new
\* title and the other completed = true, and both have committed.
C10_Witness ==
    /\ Committed(1) /\ Committed(2)
    /\ sess[1].id = sess[2].id /\ ~sess[1].gone /\ ~sess[2].gone
    /\ sess[1].obj = sess[2].obj
    /\ sess[1].obj.title = JStr("a") /\ sess[1].obj.completed = JBool(FALSE)
    /\ sess[1].data = Body(JStr("b"), Absent, Absent)
    /\ sess[2].data = Body(Absent, Absent, JBool(TRUE))

====
